---- MODULE Spec2Model ----
(***************************************************************************)
(* Model of the TrafficCamera repository.                                  *)
(*                                                                         *)
(* Spec            the photo archive migration, cleanup_photo_structure(): *)
(*                 the walk over photos/YYYY/MM/DD, the move of every      *)
(*                 *.jpg into photos/YYYY with its collision suffix, and   *)
(*                 the pruning of the emptied day and month directories.   *)
(* SpecMain        main of cleanup_photo_structure.py: the count of the    *)
(*                 nested photos, the prompt, and the migration.           *)
(* SpecCamera      a CameraController of camera_capture.py, driven by any  *)
(*                 sequence of calls of its methods or by main.            *)
(* SpecDiagnostics a run of camera_diagnostics.py.                         *)
(*                                                                         *)
(* A file or directory name is a sequence of one-character strings, a path *)
(* is a sequence of names relative to photos/, and the file system is a    *)
(* function from the paths that exist to 0 (a directory) or to the content *)
(* of a file.                                                              *)
(***************************************************************************)
EXTENDS Integers, Sequences, FiniteSets, TLC

(* ---------------------------- bounds ----------------------------------- *)

\* Largest number of leaf entries (files, empty directories) of an initial tree.
MaxEntries == 3

\* Number of times the migration is invoked in succession.
MaxRuns == 2

\* Largest number of file system calls (shutil.move, rmdir) that raise, over
\* all invocations.
MaxErrors == 1

(* ---------------------------- names ------------------------------------ *)

Digits == {"0", "1", "2", "3", "4", "5", "6", "7", "8", "9"}

Y1      == <<"1">>
Y2      == <<"2">>
NonNum  == <<"x">>
Shot    == <<"s", ".", "j", "p", "g">>
Shot001 == <<"s", "_", "0", "0", "1", ".", "j", "p", "g">>
Shot002 == <<"s", "_", "0", "0", "2", ".", "j", "p", "g">>
ShotUp  == <<"s", ".", "J", "P", "G">>

\* node values of the file system
DIR     == 0
PARTIAL == -1

\* Path("photos")
photos_dir == << >>

\* the value of a loop variable outside its loop
None == << <<"?">> >>

(* ---------------------- str and pathlib helpers ------------------------ *)

\* str.isdigit(): non-empty and every character a digit
isdigit(s) == Len(s) > 0 /\ \A i \in 1..Len(s) : s[i] \in Digits

\* str.rfind("."), 1-based, 0 when there is no dot
rfind_dot(s) ==
    LET dots == {i \in 1..Len(s) : s[i] = "."}
    IN  IF dots = {} THEN 0 ELSE CHOOSE i \in dots : \A j \in dots : j <= i

\* PurePath.suffix: from the last dot on, unless the dot is the first or the
\* last character of the name
suffix(s) ==
    LET i == rfind_dot(s)
    IN  IF 1 < i /\ i < Len(s) THEN SubSeq(s, i, Len(s)) ELSE << >>

\* PurePath.stem: the name without its suffix
stem(s) ==
    LET i == rfind_dot(s)
    IN  IF 1 < i /\ i < Len(s) THEN SubSeq(s, 1, i - 1) ELSE s

\* str(d) for one decimal digit
digit(d) == CASE d = 0 -> "0" [] d = 1 -> "1" [] d = 2 -> "2" [] d = 3 -> "3"
              [] d = 4 -> "4" [] d = 5 -> "5" [] d = 6 -> "6" [] d = 7 -> "7"
              [] d = 8 -> "8" [] d = 9 -> "9"

RECURSIVE decimal(_)
\* str(n) for a natural number
decimal(n) == IF n < 10 THEN << digit(n) >>
              ELSE Append(decimal(n \div 10), digit(n % 10))

RECURSIVE zfill(_, _)
\* pad with zeros on the left up to the width
zfill(s, width) == IF Len(s) >= width THEN s ELSE zfill(<<"0">> \o s, width)

\* format(n, "d"): no padding
format_d(n) == decimal(n)

\* format(n, "03d")
format_03d(n) == zfill(decimal(n), 3)

\* the pattern of day_dir.glob("*.jpg")
JpgPattern == <<".", "j", "p", "g">>

EndsWith(s, t) == Len(s) >= Len(t) /\ SubSeq(s, Len(s) - Len(t) + 1, Len(s)) = t

\* day_dir.glob("*.jpg"): fnmatch of the entry name against "*.jpg"; pathlib
\* compares case-sensitively on POSIX
glob_match(s) == EndsWith(s, JpgPattern)

(* ---------------------------- file system ------------------------------ *)

name(p)   == p[Len(p)]
parent(p) == SubSeq(p, 1, Len(p) - 1)

exists(f, p) == p \in DOMAIN f
is_dir(f, p) == p \in DOMAIN f /\ f[p] = DIR

\* Path.iterdir(): the entries directly inside d
iterdir(f, d) == {p \in DOMAIN f : Len(p) = Len(d) + 1 /\ parent(p) = d}

\* the entry p is left in place
Keep(f, p) == f

\* the file system without the entry p
Remove(f, p) == [q \in DOMAIN f \ {p} |-> f[q]]

\* the file system with p holding v
Put(f, p, v) == [q \in DOMAIN f \cup {p} |-> IF q = p THEN v ELSE f[q]]

RECURSIVE stacked_destination(_, _, _, _)
\* the loop of lines 54-57 taking the stem of the previous candidate instead
\* of original_destination: suffixes stack
stacked_destination(f, year, original, counter) ==
    LET destination == Append(year, stem(original) \o <<"_">>
                                    \o format_03d(counter) \o suffix(original))
    IN  IF exists(f, destination)
        THEN stacked_destination(f, year, name(destination), counter + 1)
        ELSE destination

RECURSIVE free_destination(_, _, _, _)
\* the while loop of lines 54-57: the first <stem>_<counter:03d><suffix>
\* that does not exist in the year directory
free_destination(f, year, original, counter) ==
    LET destination == Append(year, stem(original) \o <<"_">>
                                    \o format_03d(counter) \o suffix(original))
    IN  IF exists(f, destination)
        THEN free_destination(f, year, original, counter + 1)
        ELSE destination

\* line 49 alone: the name is kept whether or not it is taken
PlainDestination(f, year, photo_file) == Append(year, name(photo_file))

\* lines 49-57: where photo_file goes in year_dir
Destination(f, year, photo_file) ==
    IF exists(f, Append(year, name(photo_file)))
    THEN free_destination(f, year, name(photo_file), 1)
    ELSE Append(year, name(photo_file))

(* ---------------------------- initial trees ---------------------------- *)

\* The entries an initial tree is built from; the content of file i is i.
Leaves == <<
    [path |-> <<Y1, Shot>>,             file |-> TRUE],
    [path |-> <<Y1, Y1, Y1, Shot>>,     file |-> TRUE],
    [path |-> <<Y1, Y1, Y2, Shot>>,     file |-> TRUE],
    [path |-> <<Y1, Y1, Y1, Shot001>>,  file |-> TRUE],
    [path |-> <<Y1, Y1, Y1, ShotUp>>,   file |-> TRUE],
    [path |-> <<Y1, Y1, NonNum>>,       file |-> FALSE],
    [path |-> <<Y1, Y2, Y2>>,           file |-> FALSE],
    [path |-> <<NonNum, Y1, Y1, Shot>>, file |-> TRUE],
    [path |-> <<Y2, Y1, Y1, Shot>>,     file |-> TRUE] >>

Prefixes(p) == {SubSeq(p, 1, n) : n \in 0..Len(p)}

\* the tree that holds the chosen leaves and the directories above them
Tree(L) ==
    LET paths == UNION {Prefixes(Leaves[i].path) : i \in L} \cup {photos_dir}
        leaf(p) == {i \in L : Leaves[i].path = p /\ Leaves[i].file}
    IN  [p \in paths |-> IF leaf(p) = {} THEN DIR ELSE CHOOSE i \in leaf(p) : TRUE]

\* no tree at all: the photos directory does not exist
NoTree == [p \in {} |-> DIR]

(* ------------------------------- state --------------------------------- *)

VARIABLES
    fs,             \* the tree under photos/, photos/ itself included
    pc,             \* "idle", "move" (lines 27-64), "prune" (70-93), "done"
    years,          \* entries of photos_dir.iterdir() not yet visited
    months,         \* entries of year_dir.iterdir() not yet visited
    days,           \* entries of month_dir.iterdir() not yet visited
    photos,         \* entries of day_dir.glob("*.jpg") not yet visited
    year_dir,       \* the loop variables, None outside their loop
    month_dir,
    day_dir,
    moved_count,    \* line 24
    report,         \* the numbers of the printed summary, by label (95-97)
    runs,           \* invocations so far
    fs0,            \* history: the tree when the current invocation began
    ok_moves,       \* history: moves that succeeded in this invocation
    failed_moves,   \* history: moves that raised in this invocation
    rmdir_failed,   \* history: the directories whose rmdir raised in this invocation
    attempted,      \* history: the files shutil.move was called on
    removed,        \* history: the directories rmdir removed
    earlier_errors, \* history: moves and rmdirs that raised in earlier invocations
    last,           \* history: the last file system operation
    mpc,            \* main of the migration: "none" when nobody runs it, or its place
    response,       \* main of the migration: its local of line 154
    fs_main,        \* history: the tree when main of the migration began
    agreed,         \* history: y or yes was typed, in any letter case, spaces around
    picam2,         \* CameraController.picam2: a handle, or NoHandle
    is_initialized, \* CameraController.is_initialized
    wpc,            \* who drives the controller: "calls", or the place in main
    burst,          \* capture_burst in progress: its arguments, i and photo_paths
    handles,        \* the Picamera2 objects made so far: "started", or "idle"
                    \* when never started or stopped
    shots,          \* history: capture_file calls so far
    call,           \* history: the last call of a controller method
    cwd,            \* camera_diagnostics: the files of the working directory
    dpc,            \* camera_diagnostics: the probes main has still to run
    findings,       \* camera_diagnostics: the probes that reported a failure
    cwd0            \* history: the working directory when diagnostics began

vars == <<fs, pc, years, months, days, photos, year_dir, month_dir, day_dir,
          moved_count, report, runs, fs0, ok_moves, failed_moves,
          rmdir_failed, attempted, removed, earlier_errors, last,
          mpc, response, fs_main, agreed,
          picam2, is_initialized, wpc, burst, handles, shots, call,
          cwd, dpc, findings, cwd0>>

\* the state of main of cleanup_photo_structure.py
entry == <<mpc, response, fs_main, agreed>>

\* the state of a CameraController and of the camera behind it
camera == <<picam2, is_initialized, wpc, burst, handles, shots, call>>

\* the state of a run of camera_diagnostics.py
diagnostics == <<cwd, dpc, findings, cwd0>>

history == <<fs0, ok_moves, failed_moves, rmdir_failed, attempted, removed,
            earlier_errors, last>>

\* the calls that raised so far, over all invocations
errors_so_far == earlier_errors + failed_moves + Cardinality(rmdir_failed)

NoOp == [op |-> "none", src |-> None, dst |-> None, ok |-> TRUE, before |-> NoTree]

NoReport == [l \in {} |-> 0]

\* no Picamera2 object
NoHandle == 0

\* nothing typed
NoResponse == None

NoBurst == [count |-> 0, filename_prefix |-> << >>, i |-> 0, captured_photos |-> << >>,
            attempts |-> << >>]

NoCall == [method |-> "none", args |-> << >>, ret |-> None, stop |-> "not called",
           before |-> NoTree, after |-> NoTree, ready |-> FALSE, handle |-> NoHandle,
           made |-> << >>, captures |-> << >>]

\* cleanup_photo_structure has not been called
Uncalled ==
    /\ pc = "idle"
    /\ years = {} /\ months = {} /\ days = {} /\ photos = {}
    /\ year_dir = None /\ month_dir = None /\ day_dir = None
    /\ moved_count = 0
    /\ report = NoReport
    /\ runs = 0
    /\ fs0 = fs
    /\ ok_moves = 0 /\ failed_moves = 0 /\ rmdir_failed = {}
    /\ attempted = {} /\ removed = {}
    /\ earlier_errors = 0
    /\ last = NoOp

\* main of cleanup_photo_structure.py is not running
NoEntry == mpc = "none" /\ response = NoResponse /\ fs_main = NoTree /\ agreed = FALSE

\* no CameraController
NoCamera ==
    /\ picam2 = NoHandle /\ is_initialized = FALSE
    /\ wpc = "none" /\ burst = NoBurst
    /\ handles = << >> /\ shots = 0 /\ call = NoCall

\* camera_diagnostics.py is not running
NoDiagnostics == cwd = NoTree /\ dpc = << >> /\ findings = {} /\ cwd0 = NoTree

Init ==
    /\ \/ fs = NoTree
       \/ \E L \in SUBSET (1..Len(Leaves)) :
              /\ Cardinality(L) <= MaxEntries
              /\ fs = Tree(L)
    /\ Uncalled
    /\ NoEntry /\ NoCamera /\ NoDiagnostics

(* ------------------------ cleanup_photo_structure ---------------------- *)

\* lines 13-24: the call; without a photos directory it returns at once
Invoke ==
    /\ pc \in {"idle", "done"}
    /\ mpc \in {"none", "call"}
    /\ mpc' = IF mpc = "call" THEN "run" ELSE mpc
    /\ UNCHANGED <<response, fs_main, agreed, camera, diagnostics>>
    /\ runs < MaxRuns
    /\ runs' = runs + 1
    /\ fs0' = fs
    /\ earlier_errors' = earlier_errors + failed_moves + Cardinality(rmdir_failed)
    /\ ok_moves' = 0 /\ failed_moves' = 0 /\ rmdir_failed' = {}
    /\ attempted' = {} /\ removed' = {}
    /\ last' = NoOp
    /\ report' = NoReport
    /\ moved_count' = 0
    /\ IF exists(fs, photos_dir)
       THEN /\ pc' = "move"
            /\ years' = iterdir(fs, photos_dir)
       ELSE /\ pc' = "done"
            /\ years' = {}
    /\ UNCHANGED <<fs, months, days, photos, year_dir, month_dir, day_dir>>

\* lines 27-29: the next entry of photos/; a numeric directory is entered
MoveYear ==
    /\ UNCHANGED <<entry, camera, diagnostics>>
    /\ pc = "move" /\ year_dir = None /\ years # {}
    /\ \E y \in years :
          /\ years' = years \ {y}
          /\ IF is_dir(fs, y) /\ isdigit(name(y))
             THEN year_dir' = y /\ months' = iterdir(fs, y)
             ELSE UNCHANGED <<year_dir, months>>
    /\ UNCHANGED <<fs, pc, days, photos, month_dir, day_dir, moved_count,
                   report, runs, history>>

\* lines 34-36: the next entry of the year directory
MoveMonth ==
    /\ UNCHANGED <<entry, camera, diagnostics>>
    /\ pc = "move" /\ year_dir # None /\ month_dir = None /\ months # {}
    /\ \E m \in months :
          /\ months' = months \ {m}
          /\ IF is_dir(fs, m) /\ isdigit(name(m))
             THEN month_dir' = m /\ days' = iterdir(fs, m)
             ELSE UNCHANGED <<month_dir, days>>
    /\ UNCHANGED <<fs, pc, years, photos, year_dir, day_dir, moved_count,
                   report, runs, history>>

\* lines 41-48: the next entry of the month directory; a numeric directory
\* is globbed for *.jpg
MoveDay ==
    /\ UNCHANGED <<entry, camera, diagnostics>>
    /\ pc = "move" /\ month_dir # None /\ day_dir = None /\ days # {}
    /\ \E d \in days :
          /\ days' = days \ {d}
          /\ IF is_dir(fs, d) /\ isdigit(name(d))
             THEN /\ day_dir' = d
                  /\ photos' = {f \in iterdir(fs, d) : glob_match(name(f))}
             ELSE UNCHANGED <<day_dir, photos>>
    /\ UNCHANGED <<fs, pc, years, months, year_dir, month_dir, moved_count,
                   report, runs, history>>

\* a move that succeeds and is not counted
MovePhotoUncounted ==
    /\ UNCHANGED <<entry, camera, diagnostics>>
    /\ pc = "move" /\ day_dir # None /\ photos # {}
    /\ \E photo_file \in photos :
          LET destination == Destination(fs, year_dir, photo_file)
          IN  /\ photos' = photos \ {photo_file}
              /\ fs' = Put(Remove(fs, photo_file), destination, fs[photo_file])
              /\ moved_count' = moved_count
              /\ ok_moves' = ok_moves + 1
              /\ attempted' = attempted \cup {photo_file}
              /\ last' = [op |-> "move", src |-> photo_file, dst |-> destination,
                          ok |-> TRUE, before |-> fs]
    /\ UNCHANGED <<pc, years, months, days, year_dir, month_dir, day_dir,
                   report, runs, fs0, failed_moves, rmdir_failed, removed,
                   earlier_errors>>

\* lines 49-62: shutil.move succeeds
MovePhoto ==
    /\ UNCHANGED <<entry, camera, diagnostics>>
    /\ pc = "move" /\ day_dir # None /\ photos # {}
    /\ \E photo_file \in photos :
          LET destination == Destination(fs, year_dir, photo_file)
          IN  /\ photos' = photos \ {photo_file}
              /\ fs' = Put(Remove(fs, photo_file), destination, fs[photo_file])
              /\ moved_count' = moved_count + 1
              /\ ok_moves' = ok_moves + 1
              /\ attempted' = attempted \cup {photo_file}
              /\ last' = [op |-> "move", src |-> photo_file, dst |-> destination,
                          ok |-> TRUE, before |-> fs]
    /\ UNCHANGED <<pc, years, months, days, year_dir, month_dir, day_dir,
                   report, runs, fs0, failed_moves, rmdir_failed, removed,
                   earlier_errors>>

\* What a shutil.move that raised leaves behind. os.rename is tried first;
\* when it raises OSError the file is copied and the source unlinked, so the
\* exception comes with nothing done, with a partial copy at the destination
\* (the copy raised) or with a whole copy there (the unlink raised).
MoveLeftovers == {"nothing", "partial", "copy"}

\* shutil.move raises and nothing catches it: the function is left
MovePhotoRaisesAborts ==
    /\ UNCHANGED <<entry, camera, diagnostics>>
    /\ pc = "move" /\ day_dir # None /\ photos # {}
    /\ errors_so_far < MaxErrors
    /\ \E photo_file \in photos, left \in MoveLeftovers :
          LET destination == Destination(fs, year_dir, photo_file)
          IN  /\ photos' = photos \ {photo_file}
              /\ fs' = CASE left = "nothing" -> fs
                         [] left = "partial" -> Put(fs, destination, PARTIAL)
                         [] left = "copy"    -> Put(fs, destination, fs[photo_file])
              /\ failed_moves' = failed_moves + 1
              /\ attempted' = attempted \cup {photo_file}
              /\ last' = [op |-> "move", src |-> photo_file, dst |-> destination,
                          ok |-> FALSE, before |-> fs]
    /\ pc' = "done"
    /\ UNCHANGED <<years, months, days, year_dir, month_dir, day_dir,
                   moved_count, report, runs, fs0, ok_moves, rmdir_failed,
                   removed, earlier_errors>>

\* lines 59-64: shutil.move raises; the except clause prints and goes on
MovePhotoRaises ==
    /\ UNCHANGED <<entry, camera, diagnostics>>
    /\ pc = "move" /\ day_dir # None /\ photos # {}
    /\ errors_so_far < MaxErrors
    /\ \E photo_file \in photos, left \in MoveLeftovers :
          LET destination == Destination(fs, year_dir, photo_file)
          IN  /\ photos' = photos \ {photo_file}
              /\ fs' = CASE left = "nothing" -> fs
                         [] left = "partial" -> Put(fs, destination, PARTIAL)
                         [] left = "copy"    -> Put(fs, destination, fs[photo_file])
              /\ failed_moves' = failed_moves + 1
              /\ attempted' = attempted \cup {photo_file}
              /\ last' = [op |-> "move", src |-> photo_file, dst |-> destination,
                          ok |-> FALSE, before |-> fs]
    /\ UNCHANGED <<pc, years, months, days, year_dir, month_dir, day_dir,
                   moved_count, report, runs, fs0, ok_moves, rmdir_failed,
                   removed, earlier_errors>>

\* the loops of lines 48, 41, 34 and 27 run out; after the last year the
\* pruning pass of line 70 starts
MoveLoopEnd ==
    /\ UNCHANGED <<entry, camera, diagnostics>>
    /\ pc = "move"
    /\ \/ /\ day_dir # None /\ photos = {}
          /\ day_dir' = None
          /\ UNCHANGED <<pc, years, month_dir, year_dir>>
       \/ /\ month_dir # None /\ day_dir = None /\ days = {}
          /\ month_dir' = None
          /\ UNCHANGED <<pc, years, day_dir, year_dir>>
       \/ /\ year_dir # None /\ month_dir = None /\ months = {}
          /\ year_dir' = None
          /\ UNCHANGED <<pc, years, day_dir, month_dir>>
       \/ /\ year_dir = None /\ years = {}
          /\ pc' = "prune"
          /\ years' = iterdir(fs, photos_dir)
          /\ UNCHANGED <<day_dir, month_dir, year_dir>>
    /\ UNCHANGED <<fs, months, days, photos, moved_count, report, runs, history>>

\* lines 70-74: the next entry of photos/ in the pruning pass
PruneYear ==
    /\ UNCHANGED <<entry, camera, diagnostics>>
    /\ pc = "prune" /\ year_dir = None /\ years # {}
    /\ \E y \in years :
          /\ years' = years \ {y}
          /\ IF is_dir(fs, y) /\ isdigit(name(y))
             THEN year_dir' = y /\ months' = iterdir(fs, y)
             ELSE UNCHANGED <<year_dir, months>>
    /\ UNCHANGED <<fs, pc, days, photos, month_dir, day_dir, moved_count,
                   report, runs, history>>

\* lines 74-79: the next entry of the year directory in the pruning pass
PruneMonth ==
    /\ UNCHANGED <<entry, camera, diagnostics>>
    /\ pc = "prune" /\ year_dir # None /\ month_dir = None /\ months # {}
    /\ \E m \in months :
          /\ months' = months \ {m}
          /\ IF is_dir(fs, m) /\ isdigit(name(m))
             THEN month_dir' = m /\ days' = iterdir(fs, m)
             ELSE UNCHANGED <<month_dir, days>>
    /\ UNCHANGED <<fs, pc, years, photos, year_dir, day_dir, moved_count,
                   report, runs, history>>

\* lines 79-83: the next entry of the month directory; an empty directory is
\* removed, whatever its name
PruneDay ==
    /\ UNCHANGED <<entry, camera, diagnostics>>
    /\ pc = "prune" /\ month_dir # None /\ days # {}
    /\ \E d \in days :
          /\ days' = days \ {d}
          /\ IF is_dir(fs, d) /\ iterdir(fs, d) = {}
             THEN /\ fs' = Remove(fs, d)
                  /\ removed' = removed \cup {d}
                  /\ last' = [op |-> "rmdir", src |-> d, dst |-> None,
                              ok |-> TRUE, before |-> fs]
             ELSE UNCHANGED <<fs, removed, last>>
    /\ UNCHANGED <<pc, years, months, photos, year_dir, month_dir, day_dir,
                   moved_count, report, runs, fs0, ok_moves, failed_moves,
                   rmdir_failed, attempted, earlier_errors>>

\* lines 81-85: day_dir.rmdir() raises; the except clause prints and goes on
PruneDayRaises ==
    /\ UNCHANGED <<entry, camera, diagnostics>>
    /\ pc = "prune" /\ month_dir # None /\ days # {}
    /\ errors_so_far < MaxErrors
    /\ \E d \in days :
          /\ is_dir(fs, d) /\ iterdir(fs, d) = {}
          /\ days' = days \ {d}
          /\ rmdir_failed' = rmdir_failed \cup {d}
          /\ last' = [op |-> "rmdir", src |-> d, dst |-> None,
                      ok |-> FALSE, before |-> fs]
    /\ UNCHANGED <<fs, pc, years, months, photos, year_dir, month_dir, day_dir,
                   moved_count, report, runs, fs0, ok_moves, failed_moves,
                   attempted, removed, earlier_errors>>

\* the month directory is left as it is
PruneMonthEndKeeps ==
    /\ UNCHANGED <<entry, camera, diagnostics>>
    /\ pc = "prune" /\ month_dir # None /\ days = {}
    /\ month_dir' = None
    /\ UNCHANGED <<fs, pc, years, months, days, photos, year_dir, day_dir,
                   moved_count, report, runs, history>>

\* lines 87-91: after its entries, the month directory is removed if empty
PruneMonthEnd ==
    /\ UNCHANGED <<entry, camera, diagnostics>>
    /\ pc = "prune" /\ month_dir # None /\ days = {}
    /\ IF iterdir(fs, month_dir) = {}
       THEN /\ fs' = Remove(fs, month_dir)
            /\ removed' = removed \cup {month_dir}
            /\ last' = [op |-> "rmdir", src |-> month_dir, dst |-> None,
                        ok |-> TRUE, before |-> fs]
       ELSE UNCHANGED <<fs, removed, last>>
    /\ month_dir' = None
    /\ UNCHANGED <<pc, years, months, days, photos, year_dir, day_dir,
                   moved_count, report, runs, fs0, ok_moves, failed_moves,
                   rmdir_failed, attempted, earlier_errors>>

\* lines 89-93: month_dir.rmdir() raises
PruneMonthEndRaises ==
    /\ UNCHANGED <<entry, camera, diagnostics>>
    /\ pc = "prune" /\ month_dir # None /\ days = {}
    /\ errors_so_far < MaxErrors
    /\ iterdir(fs, month_dir) = {}
    /\ rmdir_failed' = rmdir_failed \cup {month_dir}
    /\ last' = [op |-> "rmdir", src |-> month_dir, dst |-> None,
                ok |-> FALSE, before |-> fs]
    /\ month_dir' = None
    /\ UNCHANGED <<fs, pc, years, months, days, photos, year_dir, day_dir,
                   moved_count, report, runs, fs0, ok_moves, failed_moves,
                   attempted, removed, earlier_errors>>

\* as PruneLoopEnd, with the year directory removed too when it is empty
PruneLoopEndRemovesYear ==
    /\ UNCHANGED <<entry, camera, diagnostics>>
    /\ pc = "prune" /\ month_dir = None
    /\ \/ /\ year_dir # None /\ months = {}
          /\ year_dir' = None
          /\ IF iterdir(fs, year_dir) = {}
             THEN fs' = Remove(fs, year_dir) /\ removed' = removed \cup {year_dir}
             ELSE UNCHANGED <<fs, removed>>
          /\ UNCHANGED <<pc, report>>
       \/ /\ year_dir = None /\ years = {}
          /\ pc' = "done"
          /\ report' = [l \in {"Photos moved"} |-> moved_count]
          /\ UNCHANGED <<year_dir, fs, removed>>
    /\ UNCHANGED <<years, months, days, photos, month_dir, day_dir,
                   moved_count, runs, fs0, ok_moves, failed_moves, rmdir_failed,
                   attempted, earlier_errors, last>>

\* the loops of lines 74 and 70 run out; lines 95-97 print the summary
PruneLoopEnd ==
    /\ UNCHANGED <<entry, camera, diagnostics>>
    /\ pc = "prune" /\ month_dir = None
    /\ \/ /\ year_dir # None /\ months = {}
          /\ year_dir' = None
          /\ UNCHANGED <<pc, report>>
       \/ /\ year_dir = None /\ years = {}
          /\ pc' = "done"
          /\ report' = [l \in {"Photos moved"} |-> moved_count]
          /\ UNCHANGED year_dir
    /\ UNCHANGED <<fs, years, months, days, photos, month_dir, day_dir,
                   moved_count, runs, history>>

Next ==
    \/ Invoke
    \/ MoveYear \/ MoveMonth \/ MoveDay
    \/ MovePhoto \/ MovePhotoRaises
    \/ MoveLoopEnd
    \/ PruneYear \/ PruneMonth
    \/ PruneDay \/ PruneDayRaises
    \/ PruneMonthEnd \/ PruneMonthEndRaises
    \/ PruneLoopEnd

Spec == Init /\ [][Next]_vars

TypeOK ==
    /\ pc \in {"idle", "move", "prune", "done"}
    /\ moved_count \in Nat
    /\ runs \in 0..MaxRuns
    /\ \A p \in DOMAIN fs : fs[p] \in Int

RECURSIVE lstrip(_), rstrip(_)

(* ------------------- main of cleanup_photo_structure.py ---------------- *)

\* str.strip(): the string without the spaces at its ends
lstrip(s) == IF s # << >> /\ Head(s) = " " THEN lstrip(Tail(s)) ELSE s
rstrip(s) == IF s # << >> /\ s[Len(s)] = " " THEN rstrip(SubSeq(s, 1, Len(s) - 1)) ELSE s
strip(s) == rstrip(lstrip(s))

\* str.lower() on the letters that the answers have
lower_answer(s) == [i \in 1..Len(s) |->
                      CASE s[i] = "Y" -> "y" [] s[i] = "E" -> "e" [] s[i] = "S" -> "s"
                        [] s[i] = "N" -> "n" [] OTHER -> s[i]]

\* what the user may type at the prompt of line 154
Typed == { <<"y">>, <<"Y">>, <<" ", "y", "e", "s", " ">>, <<"Y", "e", "S">>,
           <<"n">>, << >>, <<"y", "y">>, <<"y", " ", "e", "s">> }

\* the answers of Typed that are y or yes in some letter case, spaces around
Affirmative == { <<"y">>, <<"Y">>, <<" ", "y", "e", "s", " ">>, <<"Y", "e", "S">> }

\* lines 131-138: the number that main counts before it asks
nested_photos(f) ==
    Cardinality({p \in DOMAIN f :
                    /\ Len(p) = 4
                    /\ \A n \in 1..3 : is_dir(f, SubSeq(p, 1, n)) /\ isdigit(p[n])
                    /\ glob_match(name(p))})

\* main is about to be run on some tree
InitMain ==
    /\ \/ fs = NoTree
       \/ \E L \in SUBSET (1..Len(Leaves)) :
              /\ Cardinality(L) <= MaxEntries
              /\ fs = Tree(L)
    /\ Uncalled
    /\ mpc = "out" /\ response = NoResponse /\ fs_main = fs /\ agreed = FALSE
    /\ NoCamera /\ NoDiagnostics

\* lines 119-151: main returns when photos/ is missing or holds no nested
\* photo, and asks otherwise
MainBegin ==
    /\ mpc \in {"out", "returned"}
    /\ runs < MaxRuns
    /\ fs_main' = fs
    /\ agreed' = FALSE
    /\ response' = NoResponse
    /\ mpc' = IF ~exists(fs, photos_dir) \/ nested_photos(fs) = 0
              THEN "returned" ELSE "prompt"
    /\ UNCHANGED <<fs, pc, years, months, days, photos, year_dir, month_dir, day_dir,
                   moved_count, report, runs, history, camera, diagnostics>>

\* line 154: response = input(...).lower().strip()
MainAnswer ==
    /\ mpc = "prompt"
    /\ \E typed \in Typed :
          /\ response' = strip(lower_answer(typed))
          /\ agreed' = (typed \in Affirmative)
    /\ mpc' = "answered"
    /\ UNCHANGED <<fs, pc, years, months, days, photos, year_dir, month_dir, day_dir,
                   moved_count, report, runs, history, fs_main, camera, diagnostics>>

\* main without the test of line 155
MainDecideAnyway ==
    /\ mpc = "answered"
    /\ mpc' = "call"
    /\ response' = NoResponse
    /\ UNCHANGED <<fs, pc, years, months, days, photos, year_dir, month_dir, day_dir,
                   moved_count, report, runs, history, fs_main, agreed, camera,
                   diagnostics>>

\* lines 155-160: main returns unless the answer is y or yes; response is
\* not read after line 155
MainDecide ==
    /\ mpc = "answered"
    /\ mpc' = IF response \notin { <<"y">>, <<"y", "e", "s">> } THEN "returned" ELSE "call"
    /\ response' = NoResponse
    /\ UNCHANGED <<fs, pc, years, months, days, photos, year_dir, month_dir, day_dir,
                   moved_count, report, runs, history, fs_main, agreed, camera,
                   diagnostics>>

\* lines 161-162: cleanup_photo_structure has returned, and main returns
MainEnd ==
    /\ mpc = "run" /\ pc = "done"
    /\ mpc' = "returned"
    /\ UNCHANGED <<fs, pc, years, months, days, photos, year_dir, month_dir, day_dir,
                   moved_count, report, runs, history, response, fs_main, agreed,
                   camera, diagnostics>>

\* main calls cleanup_photo_structure at line 160: Invoke with mpc = "call"
MainNext ==
    \/ MainBegin \/ MainAnswer \/ MainDecide \/ MainEnd
    \/ Next

SpecMain == InitMain /\ [][MainNext]_vars

(* ====================== camera_capture.py ============================== *)

\* calls of capture_file that a run may make
MaxShots == 2

\* Picamera2 objects that a run may make
MaxHandles == 2

\* a file of size zero
EMPTY == -2

TrafficCamera == <<"t", "r", "a", "f", "f", "i", "c", "_", "c", "a", "m", "e", "r", "a">>
Burst == <<"b", "u", "r", "s", "t">>

\* the prefixes given to capture_photo and to capture_burst
Prefixes_photo == {TrafficCamera}
Prefixes_burst == {Burst}

\* datetime.now(): the values the clock gives
Timestamps == {
    [year |-> 2024, month |-> 3,  day |-> 1,  hour |-> 10, minute |-> 15,
     second |-> 30, microsecond |-> 123999],
    [year |-> 2025, month |-> 12, day |-> 31, hour |-> 0,  minute |-> 5,
     second |-> 9,  microsecond |-> 7] }

\* str.format of an int
str(n) == decimal(n)

\* strftime("%Y"), for the years from 1000 on
strftime_Y(now) == decimal(now.year)

\* strftime("%Y%m%d")
strftime_Ymd(now) ==
    strftime_Y(now) \o zfill(decimal(now.month), 2) \o zfill(decimal(now.day), 2)

\* strftime("%H%M%S_%f"): %f is the microsecond in six digits
strftime_HMS_f(now) ==
    zfill(decimal(now.hour), 2) \o zfill(decimal(now.minute), 2)
        \o zfill(decimal(now.second), 2) \o <<"_">> \o zfill(decimal(now.microsecond), 6)

\* the slice [:-3]
drop_last_3(s) == SubSeq(s, 1, Len(s) - 3)

\* lines 162-166, with the whole %f kept
filename_microseconds(filename_prefix, now) ==
    filename_prefix \o <<"_">> \o strftime_Ymd(now) \o <<"_">>
        \o strftime_HMS_f(now) \o JpgPattern

\* lines 162-166: "{}_{}_{}.jpg".format(prefix, date_str, time_str)
filename(filename_prefix, now) ==
    filename_prefix \o <<"_">> \o strftime_Ymd(now) \o <<"_">>
        \o drop_last_3(strftime_HMS_f(now)) \o JpgPattern

\* a mkdir that never raises and makes nothing when it should have raised
mkdir_quiet(f, d, refused) ==
    IF is_dir(f, d) \/ exists(f, d) \/ ~is_dir(f, parent(d)) \/ refused
    THEN [ok |-> TRUE, fs |-> f]
    ELSE [ok |-> TRUE, fs |-> Put(f, d, DIR)]

\* Path.mkdir(exist_ok=True) without parents=True: raises when d is a file,
\* when the directory above d is missing, or when the system refuses
mkdir(f, d, refused) ==
    IF is_dir(f, d) THEN [ok |-> TRUE, fs |-> f]
    ELSE IF exists(f, d) \/ ~is_dir(f, parent(d)) \/ refused
         THEN [ok |-> FALSE, fs |-> f]
         ELSE [ok |-> TRUE, fs |-> Put(f, d, DIR)]

\* what capture_file may do
CaptureOutcomes == {"written", "empty", "nothing", "raises"}

\* the content of a photo that the camera writes
IMAGE == 2

\* picam2.capture_file(str(filepath)): it raises when the directory is missing
capture_file(f, filepath, outcome) ==
    IF ~is_dir(f, parent(filepath)) \/ outcome = "raises"
    THEN [ok |-> FALSE, fs |-> f]
    ELSE [ok |-> TRUE,
          fs |-> CASE outcome = "written" -> Put(f, filepath, IMAGE)
                   [] outcome = "empty"   -> Put(f, filepath, EMPTY)
                   [] OTHER               -> f]

\* the environment of one capture_photo call
CaptureEnvs == [now : Timestamps, refused : BOOLEAN, outcome : CaptureOutcomes]

\* The environment of a call is read as far as the call gets: a value that
\* the call does not read is the still one, so that no call is counted twice.
StillEnv == [now |-> CHOOSE t \in Timestamps : t.year = 2024, refused |-> FALSE,
             outcome |-> "raises"]

Reads(f, ready, organize_by_date, env) ==
    LET year == Append(photos_dir, strftime_Y(env.now))
        asks == organize_by_date /\ ~exists(f, year) /\ is_dir(f, photos_dir)
        made == IF organize_by_date THEN mkdir(f, year, env.refused)
                                    ELSE [ok |-> TRUE, fs |-> f]
        save_dir == IF organize_by_date THEN year ELSE photos_dir
    IN  /\ ~ready => env = StillEnv
        /\ env.refused => asks
        /\ ~made.ok \/ ~is_dir(made.fs, save_dir) => env.outcome = "raises"

\* lines 147-190: the try block of capture_photo; captures are the paths
\* handed to capture_file
capture_photo_try(f, filename_prefix, organize_by_date, env) ==
    LET year   == Append(photos_dir, strftime_Y(env.now))
        made   == IF organize_by_date THEN mkdir(f, year, env.refused)
                                      ELSE [ok |-> TRUE, fs |-> f]
        save_dir == IF organize_by_date THEN year ELSE photos_dir
        filepath == Append(save_dir, filename(filename_prefix, env.now))
        shot   == capture_file(made.fs, filepath, env.outcome)
    IN  IF ~made.ok
        THEN [fs |-> made.fs, ret |-> None, captures |-> << >>]
        ELSE [fs |-> shot.fs,
              ret |-> IF shot.ok /\ exists(shot.fs, filepath) THEN filepath ELSE None,
              captures |-> << filepath >>]

\* capture_photo without lines 143-145
capture_photo_unready(f, ready, filename_prefix, organize_by_date, env) ==
    capture_photo_try(f, filename_prefix, organize_by_date, env)

\* lines 143-190: capture_photo as a function of the tree, of is_initialized,
\* of the arguments and of the environment
capture_photo(f, ready, filename_prefix, organize_by_date, env) ==
    IF ~ready
    THEN [fs |-> f, ret |-> None, captures |-> << >>]
    ELSE capture_photo_try(f, filename_prefix, organize_by_date, env)

\* the trees a new controller may find: line 29 has made photos/ if it was
\* missing; the year 2024 is a directory with a photo, the year 2025 is
\* absent or a file
CameraTrees == {
    [p \in {photos_dir, <<decimal(2024)>>, <<decimal(2024), Shot>>} |->
        IF Len(p) = 2 THEN 1 ELSE DIR],
    [p \in {photos_dir, <<decimal(2024)>>, <<decimal(2024), Shot>>,
            <<decimal(2025)>>} |->
        IF Len(p) = 2 \/ p = <<decimal(2025)>> THEN 1 ELSE DIR] }

\* where initialize may raise: nowhere, in Picamera2(), in configure (or in
\* create_still_configuration), in start, in set_controls
InitializeFailures == {"none", "Picamera2", "configure", "start", "set_controls"}

\* the record of a call of a controller method
Called(method, args, ret, stop, captures, after) ==
    [method |-> method, args |-> args, ret |-> ret, stop |-> stop,
     before |-> fs, after |-> after, ready |-> is_initialized, handle |-> picam2,
     made |-> handles, captures |-> captures]

\* where main goes after a step; a caller of the methods goes on calling
Then(place) == IF wpc = "calls" THEN "calls" ELSE place

\* lines 22-31: a controller made by a caller of its methods or by main
CameraInit ==
    /\ fs \in CameraTrees
    /\ Uncalled /\ NoEntry /\ NoDiagnostics
    /\ picam2 = NoHandle /\ is_initialized = FALSE
    /\ wpc \in {"calls", "initialize"}
    /\ burst = NoBurst
    /\ handles = << >> /\ shots = 0
    /\ call = NoCall

\* lines 33-117: initialize. The quality mode chooses the values of the
\* configuration and of the controls, which the model does not hold.
Initialize ==
    /\ wpc \in {"calls", "initialize"}
    /\ \E fail \in InitializeFailures :
          /\ fail # "Picamera2" => Len(handles) < MaxHandles
          /\ handles' = CASE fail = "Picamera2" -> handles
                          [] fail \in {"configure", "start"} -> Append(handles, "idle")
                          [] OTHER -> Append(handles, "started")
          /\ picam2' = IF fail = "Picamera2" THEN picam2 ELSE Len(handles) + 1
          /\ is_initialized' = (fail = "none")
          /\ call' = Called("initialize", << >>, fail = "none", "not called", << >>, fs)
          /\ wpc' = Then(IF fail = "none" THEN "capture_photo" ELSE "cleanup")
    /\ UNCHANGED <<fs, burst, shots>>
    /\ UNCHANGED <<pc, years, months, days, photos, year_dir, month_dir, day_dir,
                   moved_count, report, runs, history, entry, diagnostics>>

\* lines 133-190: capture_photo, called by main (line 257) or by a caller
CapturePhoto ==
    /\ wpc \in {"calls", "capture_photo"}
    /\ is_initialized => shots < MaxShots
    /\ \E filename_prefix \in IF wpc = "calls" THEN Prefixes_photo ELSE {TrafficCamera},
          organize_by_date \in IF wpc = "calls" THEN BOOLEAN ELSE {TRUE},
          env \in CaptureEnvs :
          LET r == capture_photo(fs, is_initialized, filename_prefix,
                                 organize_by_date, env)
          IN  /\ Reads(fs, is_initialized, organize_by_date, env)
              /\ fs' = r.fs
              /\ shots' = shots + Len(r.captures)
              /\ call' = Called("capture_photo",
                                [filename_prefix |-> filename_prefix,
                                 organize_by_date |-> organize_by_date, env |-> env],
                                r.ret, "not called", r.captures, r.fs)
    /\ wpc' = Then("cleanup")
    /\ UNCHANGED <<picam2, is_initialized, burst, handles>>
    /\ UNCHANGED <<pc, years, months, days, photos, year_dir, month_dir, day_dir,
                   moved_count, report, runs, history, entry, diagnostics>>

\* lines 203-208: capture_burst begins, or returns [] at once
BurstBegin ==
    /\ wpc = "calls"
    /\ \E count \in 0..MaxShots, filename_prefix \in Prefixes_burst :
          /\ is_initialized => shots + count <= MaxShots
          /\ IF ~is_initialized
             THEN /\ call' = Called("capture_burst",
                                    [count |-> count, filename_prefix |-> filename_prefix,
                                     attempts |-> << >>],
                                    << >>, "not called", << >>, fs)
                  /\ UNCHANGED <<wpc, burst>>
             ELSE /\ burst' = [count |-> count, filename_prefix |-> filename_prefix,
                               i |-> 0, captured_photos |-> << >>, attempts |-> << >>]
                  /\ wpc' = "burst"
                  /\ UNCHANGED call
    /\ UNCHANGED <<fs, picam2, is_initialized, handles, shots>>
    /\ UNCHANGED <<pc, years, months, days, photos, year_dir, month_dir, day_dir,
                   moved_count, report, runs, history, entry, diagnostics>>

\* the prefix of every photo of a burst is the prefix of the burst
burst_prefix_plain(filename_prefix, i) == filename_prefix

\* line 211: "{}_{}".format(filename_prefix, i+1)
burst_prefix(filename_prefix, i) == filename_prefix \o <<"_">> \o str(i + 1)

\* lines 210-216: one turn of the loop of capture_burst
BurstAttempt ==
    /\ wpc = "burst"
    /\ burst.i < burst.count
    /\ \E env \in CaptureEnvs :
          LET prefix == burst_prefix(burst.filename_prefix, burst.i)
              r == capture_photo(fs, is_initialized, prefix, TRUE, env)
          IN  /\ Reads(fs, is_initialized, TRUE, env)
              /\ fs' = r.fs
              /\ shots' = shots + Len(r.captures)
              /\ burst' = [burst EXCEPT
                    !.i = @ + 1,
                    !.captured_photos = IF r.ret # None THEN Append(@, r.ret) ELSE @,
                    !.attempts = Append(@, [filename_prefix |-> prefix, now |-> env.now,
                                            ret |-> r.ret, captures |-> r.captures])]
    /\ UNCHANGED <<picam2, is_initialized, wpc, handles, call>>
    /\ UNCHANGED <<pc, years, months, days, photos, year_dir, month_dir, day_dir,
                   moved_count, report, runs, history, entry, diagnostics>>

\* lines 218-219: capture_burst returns its list
BurstEnd ==
    /\ wpc = "burst"
    /\ burst.i >= burst.count
    /\ call' = Called("capture_burst",
                      [count |-> burst.count,
                       filename_prefix |-> burst.filename_prefix,
                       attempts |-> burst.attempts],
                      burst.captured_photos, "not called", << >>, fs)
    /\ burst' = NoBurst
    /\ wpc' = "calls"
    /\ UNCHANGED <<fs, picam2, is_initialized, handles, shots>>
    /\ UNCHANGED <<pc, years, months, days, photos, year_dir, month_dir, day_dir,
                   moved_count, report, runs, history, entry, diagnostics>>

\* cleanup without the test of line 223
CleanupUnguarded ==
    /\ wpc \in {"calls", "cleanup"}
    /\ \E raises \in BOOLEAN :
          /\ handles' = IF raises \/ picam2 = NoHandle THEN handles
                        ELSE [handles EXCEPT ![picam2] = "idle"]
          /\ is_initialized' = IF raises THEN is_initialized ELSE FALSE
          /\ call' = Called("cleanup", << >>, None,
                            IF raises THEN "raised" ELSE "returned", << >>, fs)
    /\ wpc' = Then("exit")
    /\ UNCHANGED <<fs, picam2, burst, shots>>
    /\ UNCHANGED <<pc, years, months, days, photos, year_dir, month_dir, day_dir,
                   moved_count, report, runs, history, entry, diagnostics>>

\* lines 221-229: cleanup, called by main (line 276) or by a caller
Cleanup ==
    /\ wpc \in {"calls", "cleanup"}
    /\ IF picam2 # NoHandle /\ is_initialized
       THEN \E raises \in BOOLEAN :
               /\ handles' = IF raises THEN handles
                             ELSE [handles EXCEPT ![picam2] = "idle"]
               /\ is_initialized' = IF raises THEN is_initialized ELSE FALSE
               /\ call' = Called("cleanup", << >>, None,
                                 IF raises THEN "raised" ELSE "returned", << >>, fs)
       ELSE /\ call' = Called("cleanup", << >>, None, "not called", << >>, fs)
            /\ UNCHANGED <<handles, is_initialized>>
    /\ wpc' = Then("exit")
    /\ UNCHANGED <<fs, picam2, burst, shots>>
    /\ UNCHANGED <<pc, years, months, days, photos, year_dir, month_dir, day_dir,
                   moved_count, report, runs, history, entry, diagnostics>>

\* somebody else removes photos/ and all that is in it
PhotoDirRemoved ==
    /\ wpc = "calls"
    /\ exists(fs, photos_dir)
    /\ fs' = NoTree
    /\ UNCHANGED <<picam2, is_initialized, wpc, burst, handles, shots, call>>
    /\ UNCHANGED <<pc, years, months, days, photos, year_dir, month_dir, day_dir,
                   moved_count, report, runs, history, entry, diagnostics>>

CameraNext ==
    \/ Initialize
    \/ CapturePhoto
    \/ BurstBegin \/ BurstAttempt \/ BurstEnd
    \/ Cleanup
    \/ PhotoDirRemoved

SpecCamera == CameraInit /\ [][CameraNext]_vars

(* ====================== camera_diagnostics.py ========================== *)

\* line 136: test_file
test_file == <<"d", "i", "a", "g", "n", "o", "s", "t", "i", "c", "_", "t", "e", "s", "t",
               ".", "j", "p", "g">>

\* the entries of the working directory that the probes look at
photos_entry == <<"p", "h", "o", "t", "o", "s">>
venv_entry == <<"v", "e", "n", "v">>

\* lines 164-171: the probes of main, in its order
Probes == << "check_libcamera_status", "check_picamera2_status", "check_gpu_memory",
             "check_memory", "check_processes", "check_project_status",
             "test_quick_capture", "suggest_fixes" >>

\* the probes whose commands may be missing or report a fault
Fallible == {"check_libcamera_status", "check_picamera2_status", "check_gpu_memory",
             "check_processes", "check_project_status"}

\* the working directories a run may find: with or without photos/ and
\* venv/, and with no test file, a photo of that name or an empty one
DiagnosticDirs ==
    { [n \in D |-> CASE n = test_file -> c [] OTHER -> DIR] :
        D \in SUBSET {test_file, photos_entry, venv_entry}, c \in {1, EMPTY} }

\* a run of the diagnostics begins
DiagnosticsInit ==
    /\ fs = NoTree
    /\ Uncalled /\ NoEntry /\ NoCamera
    /\ cwd \in DiagnosticDirs
    /\ cwd0 = cwd
    /\ dpc = Probes
    /\ findings = {}

\* lines 18-129 and 148-159: a probe that runs commands which only read, or
\* only prints; check_project_status also fails without photos/ or venv/
ReadOnlyProbe ==
    /\ dpc # << >> /\ Head(dpc) # "test_quick_capture"
    /\ \E fault \in BOOLEAN :
          /\ fault => Head(dpc) \in Fallible
          /\ Head(dpc) = "check_project_status"
                 /\ ~(photos_entry \in DOMAIN cwd /\ venv_entry \in DOMAIN cwd) => fault
          /\ findings' = IF fault THEN findings \cup {Head(dpc)} ELSE findings
    /\ dpc' = Tail(dpc)
    /\ UNCHANGED <<cwd, cwd0>>
    /\ UNCHANGED <<fs, pc, years, months, days, photos, year_dir, month_dir, day_dir,
                   moved_count, report, runs, history, entry, camera>>

\* lines 131-146: libcamera-still writes the test file or fails; the file,
\* if there is one then, is reported as the capture and removed
test_quick_capture ==
    /\ dpc # << >> /\ Head(dpc) = "test_quick_capture"
    /\ \E written \in BOOLEAN :
          LET captured == IF written THEN Put(cwd, test_file, IMAGE) ELSE cwd
          IN  IF test_file \in DOMAIN captured
              THEN /\ cwd' = Remove(captured, test_file)
                   /\ UNCHANGED findings
              ELSE /\ cwd' = captured
                   /\ findings' = findings \cup {"test_quick_capture"}
    /\ dpc' = Tail(dpc)
    /\ UNCHANGED cwd0
    /\ UNCHANGED <<fs, pc, years, months, days, photos, year_dir, month_dir, day_dir,
                   moved_count, report, runs, history, entry, camera>>

DiagnosticsNext == ReadOnlyProbe \/ test_quick_capture

SpecDiagnostics == DiagnosticsInit /\ [][DiagnosticsNext]_vars

(* ------------------------ vocabulary of the claims --------------------- *)

\* p lies in a day directory: photos/<digits>/<digits>/<digits>/<name>
InNumericDay(f, p) ==
    /\ Len(p) = 4
    /\ \A n \in 1..3 : is_dir(f, SubSeq(p, 1, n)) /\ isdigit(p[n])

\* the .jpg files in the day directories of the tree f
NestedJpgs(f) ==
    {p \in DOMAIN f : InNumericDay(f, p) /\ f[p] # DIR /\ EndsWith(name(p), JpgPattern)}

\* the year directory above p
YearOf(p) == SubSeq(p, 1, 1)

\* the file p of the tree before the invocation is still where it was
AtSource(p) == p \in DOMAIN fs /\ fs[p] = fs0[p]

\* the entries of p's year directory that are new and hold p's content
NewInYear(p) ==
    {q \in iterdir(fs, YearOf(p)) : q \notin DOMAIN fs0 /\ fs[q] = fs0[p]}

(* ------------------------------- C1 ------------------------------------ *)

\* C1 as stated: after the invocation every .jpg file of a day directory
\* exists exactly once, in its year directory or at its original location,
\* and every file that was directly in a year directory is unchanged.
C1_ExactlyOnce ==
    pc = "done" =>
        /\ \A p \in NestedJpgs(fs0) :
              Cardinality({q \in ({p} \cap DOMAIN fs) \cup iterdir(fs, YearOf(p)) :
                              fs[q] = fs0[p]}) = 1
        /\ \A p \in DOMAIN fs0 :
              Len(p) = 2 /\ fs0[p] # DIR => p \in DOMAIN fs /\ fs[p] = fs0[p]

\* C1 amended: at every point of an invocation, every .jpg file of a day
\* directory is at its original location or under exactly one new name in
\* its year directory, never in neither; it is in both only after a move
\* that raised (shutil.move had copied the file and could not unlink the
\* source); and every other entry the tree had before the invocation, the
\* files directly in the year directories among them, keeps its name and
\* content unless it is a directory that was pruned.
C1_NoPhotoLost ==
    LET nested == NestedJpgs(fs0)
    IN  /\ \A p \in nested :
              LET at  == AtSource(p)
                  new == NewInYear(p)
              IN  /\ at \/ new # {}
                  /\ ~at => Cardinality(new) = 1 /\ p \notin DOMAIN fs
                  /\ failed_moves = 0 => ~(at /\ new # {})
        /\ \A p \in DOMAIN fs0 \ nested :
              IF p \in DOMAIN fs THEN fs[p] = fs0[p] ELSE p \in removed

\* a run in which one move raised after the copy and another file of the
\* same name was moved next to that copy
C1_Witness ==
    /\ pc = "done"
    /\ \E p, q \in NestedJpgs(fs0) :
          /\ p # q /\ name(p) = name(q) /\ YearOf(p) = YearOf(q)
          /\ AtSource(p) /\ NewInYear(p) # {}
          /\ ~AtSource(q) /\ NewInYear(q) # {}

(* ------------------------------- C2 ------------------------------------ *)

\* C2: whenever shutil.move is called on a file <stem>.jpg (non-empty stem),
\* the destination is <stem>.jpg in the year directory if that name was free
\* there, and otherwise <stem>_NNN.jpg for the smallest n >= 1 whose
\* three-digit name was free, <stem> being the stem of the file moved.
C2_DestinationName ==
    last.op = "move" /\ Len(name(last.src)) > 4 =>
        LET nm      == name(last.src)
            base    == SubSeq(nm, 1, Len(nm) - 4)
            year    == YearOf(last.src)
            taken(n) == Append(year, n) \in DOMAIN last.before
            nth(n)  == base \o <<"_", digit(n \div 100), digit((n \div 10) % 10),
                                 digit(n % 10)>> \o JpgPattern
        IN  /\ parent(last.dst) = year
            /\ ~taken(name(last.dst))
            /\ IF ~taken(nm)
               THEN name(last.dst) = nm
               ELSE \E n \in 1..Cardinality(DOMAIN last.before) :
                       /\ name(last.dst) = nth(n)
                       /\ \A m \in 1..(n - 1) : taken(nth(m))

\* a move that found <stem>.jpg and <stem>_001.jpg taken and went to _002
C2_Witness ==
    /\ last.op = "move" /\ last.ok
    /\ name(last.src) = Shot
    /\ name(last.dst) = Shot002

(* ------------------------------- C3 ------------------------------------ *)

\* <stem>_001.jpg for the name <stem>.jpg
With001(nm) == SubSeq(nm, 1, Len(nm) - 4) \o <<"_", "0", "0", "1">> \o JpgPattern

\* two files of one name in two day directories of one year
SameNamePair(p, q) ==
    /\ p # q /\ Len(p) = 4 /\ Len(q) = 4
    /\ p \in NestedJpgs(fs0) /\ q \in NestedJpgs(fs0) /\ name(p) = name(q) /\ YearOf(p) = YearOf(q)
    /\ Len(name(p)) > 4

\* both are in the year directory, one as <name> and one as <stem>_001.jpg
BothInYear(p, q) ==
    LET a == Append(YearOf(p), name(p))
        b == Append(YearOf(p), With001(name(p)))
    IN  /\ a \in DOMAIN fs /\ b \in DOMAIN fs
        /\ {fs[a], fs[b]} = {fs0[p], fs0[q]}

\* C3 as stated: after a migration that moved them, two files of one name
\* from two day directories of one year are both in the year directory, one
\* under the name and one under <stem>_001.jpg, whatever else the year
\* directory held.
C3_AnyTree ==
    pc = "done" =>
        \A p, q \in DOMAIN fs0 :
            SameNamePair(p, q) /\ p \notin DOMAIN fs /\ q \notin DOMAIN fs
            => BothInYear(p, q)

\* the other files of the year that compete for the two names
Rivals(p, q) ==
    {r \in (iterdir(fs0, YearOf(p)) \cup NestedJpgs(fs0)) \ {p, q} :
        YearOf(r) = YearOf(p) /\ name(r) \in {name(p), With001(name(p))}}

\* C3 amended: ... provided both moves succeeded and no other entry of the
\* year directory and no other .jpg file of a day directory of that year
\* is named <name> or <stem>_001.jpg.
C3_CollisionPair ==
    pc = "done" =>
        \A p, q \in DOMAIN fs0 :
            /\ SameNamePair(p, q)
            /\ p \notin DOMAIN fs /\ q \notin DOMAIN fs
            /\ Rivals(p, q) = {}
            => BothInYear(p, q)

\* a finished run that moved such a pair
C3_Witness ==
    /\ pc = "done"
    /\ \E p, q \in DOMAIN fs0 :
          /\ SameNamePair(p, q) /\ Rivals(p, q) = {}
          /\ p \notin DOMAIN fs /\ q \notin DOMAIN fs
          /\ BothInYear(p, q)

(* ------------------------------- C4 ------------------------------------ *)

\* C4 as stated: the second of two invocations in succession moves no file
\* and meets no error.
C4_SecondRunClean ==
    pc = "done" /\ runs = 2 =>
        moved_count = 0 /\ failed_moves = 0 /\ rmdir_failed = {}

\* C4 amended: when every move and every directory removal of the earlier
\* invocations succeeded, a further invocation moves no file, meets no
\* error and leaves the tree as it found it.
C4_Idempotent ==
    runs >= 2 /\ earlier_errors = 0 =>
        /\ moved_count = 0 /\ ok_moves = 0 /\ attempted = {}
        /\ failed_moves = 0 /\ rmdir_failed = {}
        /\ removed = {} /\ fs = fs0

\* a second invocation has finished on a tree in which the first one,
\* without error, moved a file into a year directory
C4_Witness ==
    /\ pc = "done" /\ runs = 2 /\ earlier_errors = 0
    /\ \E q \in DOMAIN fs :
          /\ Len(q) = 2 /\ fs[q] > 0
          /\ Leaves[fs[q]].path # q

(* ------------------------------- C5 ------------------------------------ *)

\* the empty day directories and the empty month directories of the tree f
EmptyNested(f) ==
    {d \in DOMAIN f :
        /\ Len(d) \in {2, 3}
        /\ \A n \in 1..Len(d) : is_dir(f, SubSeq(d, 1, n)) /\ isdigit(d[n])
        /\ iterdir(f, d) = {}}

\* C5: a move that raised leaves the file at its source, and the invocation
\* still calls shutil.move on every other .jpg file of the day directories
\* and still prunes: when it ends, every empty day or month directory left
\* is one whose rmdir raised.
C5_FailureDoesNotAbort ==
    /\ last.op = "move" /\ ~last.ok =>
          last.src \in DOMAIN fs /\ fs[last.src] = last.before[last.src]
    /\ pc = "done" /\ failed_moves > 0 =>
          /\ NestedJpgs(fs0) \subseteq attempted
          /\ EmptyNested(fs) \subseteq rmdir_failed

\* a finished run in which one move raised, another succeeded and a
\* directory was pruned
C5_Witness ==
    /\ pc = "done"
    /\ failed_moves > 0 /\ ok_moves > 0 /\ removed # {}

(* ------------------------------- C6 ------------------------------------ *)

\* C6 as stated: after a run in which m moves succeeded and k moves raised,
\* the summary holds both numbers, the moved count m and an error count k.
C6_ReportsErrorCount ==
    pc = "done" /\ failed_moves > 0 =>
        \E m, e \in DOMAIN report :
            m # e /\ report[m] = ok_moves /\ report[e] = failed_moves

(* ------------------------------- C7 ------------------------------------ *)

\* the year directories a file was moved out of in this invocation
MigratedYears == {YearOf(p) : p \in {q \in NestedJpgs(fs0) : q \notin DOMAIN fs}}

\* C7 as stated: after migration no empty day or month directory is left
\* under a year directory that files were migrated out of.
C7_NoEmptyLeft ==
    pc = "done" => \A d \in EmptyNested(fs) : YearOf(d) \notin MigratedYears

\* C7 amended: after migration, under a year directory that files were
\* migrated out of, the only empty day or month directories left are those
\* whose removal raised.
C7_PruningComplete ==
    pc = "done" =>
        \A d \in EmptyNested(fs) : YearOf(d) \in MigratedYears => d \in rmdir_failed

\* a finished run that moved a file and then removed its day directory and
\* its month directory
C7_Witness ==
    /\ pc = "done" /\ ok_moves > 0
    /\ \E d, m \in removed : Len(d) = 3 /\ parent(d) = m /\ YearOf(d) \in MigratedYears

(* ------------------------------- C8 ------------------------------------ *)

Skipped(p) ==
    \E n \in 1..3 :
        /\ n <= Len(p)
        /\ \A k \in 1..(n - 1) : is_dir(fs0, SubSeq(p, 1, k)) /\ isdigit(p[k])
        /\ ~(is_dir(fs0, SubSeq(p, 1, n)) /\ isdigit(p[n]))

\* C9 as stated: whatever is not on a numeric year/month/day path is
\* neither moved, renamed nor removed.
C9_SkippedUntouched ==
    \A p \in DOMAIN fs0 : Skipped(p) => p \in DOMAIN fs /\ fs[p] = fs0[p]

(* ------------------------------- C10 ----------------------------------- *)

\* str.lower() on the letters that occur in the names of the model
lower_char(c) == CASE c = "J" -> "j" [] c = "P" -> "p" [] c = "G" -> "g"
                   [] c = "S" -> "s" [] OTHER -> c

lower(s) == [i \in 1..Len(s) |-> lower_char(s[i])]

\* C10 as stated: a file of a day directory whose extension is .jpg in any
\* letter case is moved into the year directory.
C10_AnyLetterCase ==
    pc = "done" /\ failed_moves = 0 =>
        \A p \in DOMAIN fs0 :
            /\ InNumericDay(fs0, p) /\ fs0[p] # DIR
            /\ EndsWith(lower(name(p)), JpgPattern)
            => /\ p \notin DOMAIN fs
               /\ \E q \in iterdir(fs, YearOf(p)) : fs[q] = fs0[p]
(* ------------------------------- C11 ----------------------------------- *)

\* n in two, three and four decimal digits
TwoDigits(n) == << digit(n \div 10), digit(n % 10) >>
ThreeDigits(n) == << digit(n \div 100), digit((n \div 10) % 10), digit(n % 10) >>
FourDigits(n) == << digit(n \div 1000) >> \o ThreeDigits(n % 1000)

\* <prefix>_<YYYYMMDD>_<HHMMSS>_<mmm>.jpg, mmm being the whole milliseconds
NamedByTime(prefix, t) ==
    prefix \o <<"_">> \o FourDigits(t.year) \o TwoDigits(t.month) \o TwoDigits(t.day)
        \o <<"_">> \o TwoDigits(t.hour) \o TwoDigits(t.minute) \o TwoDigits(t.second)
        \o <<"_">> \o ThreeDigits(t.microsecond \div 1000) \o <<".", "j", "p", "g">>

\* <root>/<YYYY>/<name> or <root>/<name>
PlacedByTime(prefix, t, by_date) ==
    IF by_date THEN << FourDigits(t.year), NamedByTime(prefix, t) >>
               ELSE << NamedByTime(prefix, t) >>

\* C11: for every prefix and timestamp, capture_photo hands to the camera the
\* path <root>/<YYYY>/<prefix>_<YYYYMMDD>_<HHMMSS>_<mmm>.jpg when
\* organize_by_date is true and <root>/<prefix>_<YYYYMMDD>_<HHMMSS>_<mmm>.jpg
\* when it is false, mmm being the milliseconds in three digits; a photo
\* that the camera writes is at that path and is the path returned; the
\* year directory exists afterwards and nothing else in the tree changes.
C11_PathOfCapture ==
    /\ call.method = "capture_photo" /\ call.captures # << >> =>
          LET a == call.args
              path == PlacedByTime(a.filename_prefix, a.env.now, a.organize_by_date)
              year == << FourDigits(a.env.now.year) >>
          IN  /\ call.captures = << path >>
              /\ call.ret # None => call.ret = path
              /\ a.env.outcome = "written" =>
                    /\ path \in DOMAIN call.after /\ call.after[path] = IMAGE
                    /\ call.ret = path
              /\ a.organize_by_date => is_dir(call.after, year)
              /\ \A p \in DOMAIN call.before \ {path} :
                    p \in DOMAIN call.after /\ call.after[p] = call.before[p]
              /\ DOMAIN call.after \subseteq
                    DOMAIN call.before \cup {path} \cup (IF a.organize_by_date THEN {year} ELSE {})
    /\ \A k \in 1..Len(burst.attempts) :
          burst.attempts[k].captures # << >> =>
              burst.attempts[k].captures =
                  << PlacedByTime(burst.attempts[k].filename_prefix,
                                  burst.attempts[k].now, TRUE) >>

\* traffic_camera at 2024-03-01T10:15:30.123 was written to
\* photos/2024/traffic_camera_20240301_101530_123.jpg, beside the old photo
\* of 2024; and a capture has made the directory of 2025
C11_Witness ==
    /\ call.method = "capture_photo"
    /\ call.args.filename_prefix = TrafficCamera /\ call.args.organize_by_date
    /\ call.args.env.outcome = "written"
    /\ call.ret = << <<"2", "0", "2", "4">>,
                     <<"t", "r", "a", "f", "f", "i", "c", "_", "c", "a", "m", "e", "r", "a",
                       "_", "2", "0", "2", "4", "0", "3", "0", "1",
                       "_", "1", "0", "1", "5", "3", "0", "_", "1", "2", "3",
                       ".", "j", "p", "g">> >>
    /\ call.ret \in DOMAIN fs /\ fs[call.ret] = IMAGE
    /\ << <<"2", "0", "2", "4">>, Shot >> \in DOMAIN fs
    /\ is_dir(fs, << <<"2", "0", "2", "5">> >>)
    /\ ~exists(call.before, << <<"2", "0", "2", "4">>,  call.ret[2] >>)

(* ------------------------------- C12 ----------------------------------- *)

\* the year directory of the call cannot be made: it is not there, and the
\* system refuses, or photos/ is gone, or a file has its name
CannotCreate(c) ==
    LET year == << FourDigits(c.args.env.now.year) >>
    IN  /\ c.args.organize_by_date
        /\ ~(year \in DOMAIN c.before /\ c.before[year] = DIR)
        /\ \/ c.args.env.refused
           \/ photos_dir \notin DOMAIN c.before
           \/ year \in DOMAIN c.before

\* C12: when the target directory cannot be created during a capture,
\* capture_photo returns None, the camera's capture is not invoked for that
\* attempt and no file is written.
C12_NoDirectoryNoCapture ==
    call.method = "capture_photo" /\ call.ready /\ CannotCreate(call) =>
        /\ call.ret = None
        /\ call.captures = << >>
        /\ call.after = call.before

\* an initialized controller was asked for a photo of 2025, whose directory
\* was missing, and the system refused to make it
C12_Witness ==
    /\ call.method = "capture_photo" /\ call.ready
    /\ call.args.organize_by_date /\ call.args.env.refused
    /\ call.args.env.now.year = 2025
    /\ photos_dir \in DOMAIN call.before
    /\ call.ret = None /\ shots = 0

(* ------------------------------- C13 ----------------------------------- *)

\* C13 as stated: capture_photo returns a path only if the file at that path
\* exists and is not empty when the camera's capture has returned.
C13_SuccessMeansNonEmptyFile ==
    call.method = "capture_photo" /\ call.ret # None =>
        /\ call.ret \in DOMAIN call.after
        /\ call.after[call.ret] # EMPTY

(* ------------------------------- C14 ----------------------------------- *)

\* C14 as stated: when the workflow of main has ended, no camera handle that
\* was started is still started.
C14_HandlesReleasedAtExit ==
    wpc = "exit" => \A h \in 1..Len(handles) : handles[h] # "started"

(* ------------------------------- C15 ----------------------------------- *)

\* C15: main of the migration changes the tree only after the user was
\* asked and answered y or yes (in any letter case, spaces around ignored):
\* it calls cleanup_photo_structure only then, and with any other answer,
\* without photos/ or without nested photos the tree is as main found it.
C15_ConfirmedBeforeMutation ==
    mpc # "none" =>
        /\ mpc \in {"call", "run"} => agreed
        /\ fs # fs_main => agreed /\ mpc \in {"run", "returned"}
        /\ ~agreed => pc \in {"idle", "done"}

\* the user agreed and main has returned after moving a photo
C15_Witness ==
    /\ mpc = "returned" /\ agreed
    /\ fs # fs_main
    /\ ok_moves > 0

(* ------------------------------- C16 ----------------------------------- *)

\* C16 as stated: after a full run of the diagnostics, whatever the probes
\* found, the files of the working directory and their contents are what
\* they were before the run.
C16_DiagnosticsReadOnly ==
    dpc = << >> => cwd = cwd0

(* ------------------------------- C17 ----------------------------------- *)

\* C17: the camera's capture is invoked only in calls made while
\* is_initialized is True; is_initialized is what the last initialize
\* returned, and False after a cleanup whose stop succeeded, and no other
\* call changes it; a capture_photo or capture_burst made while it is False
\* returns None or the empty list and leaves the tree as it was.
C17_CaptureOnlyWhenInitialized ==
    /\ call.captures # << >> => call.ready
    /\ burst.attempts # << >> => is_initialized
    /\ call.method = "initialize" => is_initialized = call.ret
    /\ call.method = "cleanup" /\ call.stop = "returned" => ~is_initialized
    /\ call.method \in {"capture_photo", "capture_burst"}
          \/ (call.method = "cleanup" /\ call.stop # "returned")
          => is_initialized = call.ready
    /\ call.method = "capture_photo" /\ ~call.ready =>
          call.ret = None /\ call.captures = << >> /\ call.after = call.before
    /\ call.method = "capture_burst" =>
          IF call.ready
          THEN \A k \in 1..Len(call.args.attempts) :
                  Len(call.args.attempts[k].captures) <= 1
          ELSE /\ call.ret = << >> /\ call.args.attempts = << >>
               /\ call.after = call.before

\* a photo was asked of a controller that had taken one and was then cleaned
\* up or failed to initialize again
C17_Witness ==
    /\ call.method = "capture_photo" /\ ~call.ready
    /\ shots > 0
    /\ call.ret = None

(* ------------------------------- C18 ----------------------------------- *)

\* the decimal numeral of a number below 100
Numeral(n) == IF n < 10 THEN << digit(n) >> ELSE TwoDigits(n)

\* the paths of the attempts of a that succeeded, in the order of the attempts
RECURSIVE Successes(_)
Successes(a) ==
    IF a = << >> THEN << >>
    ELSE LET rest == Successes(SubSeq(a, 1, Len(a) - 1))
         IN  IF a[Len(a)].ret # None THEN Append(rest, a[Len(a)].ret) ELSE rest

\* C18: capture_burst(count) on an initialized controller makes exactly count
\* attempts, the k-th with the prefix <prefix>_k; each attempt hands at most
\* one path to the camera, so none is retried, and a failed attempt does not
\* end the burst; the list returned holds the paths of the successful
\* attempts in their order, and no path occurs twice in it.
C18_BurstAttempts ==
    /\ wpc = "burst" =>
          /\ Len(burst.attempts) = burst.i /\ burst.i <= burst.count
          /\ burst.captured_photos = Successes(burst.attempts)
    /\ call.method = "capture_burst" /\ call.ready =>
          LET a == call.args.attempts
          IN  /\ Len(a) = call.args.count
              /\ \A k \in 1..Len(a) :
                    /\ a[k].filename_prefix =
                          call.args.filename_prefix \o <<"_">> \o Numeral(k)
                    /\ Len(a[k].captures) <= 1
                    /\ a[k].ret # None => a[k].captures = << a[k].ret >>
              /\ call.ret = Successes(a)
              /\ Len(call.ret) <= call.args.count
              /\ \A j, k \in 1..Len(call.ret) : j # k => call.ret[j] # call.ret[k]

\* a burst of two in one millisecond: the first attempt failed, the second
\* succeeded; and a burst whose two attempts both succeeded at one instant
C18_Witness ==
    /\ call.method = "capture_burst" /\ call.ready
    /\ call.args.count = 2
    /\ call.args.attempts[1].now = call.args.attempts[2].now
    /\ call.args.attempts[1].ret = None
    /\ call.args.attempts[2].ret # None
    /\ Len(call.ret) = 1

(* ------------------------------- C19 ----------------------------------- *)

\* the files of the day directories before the invocation that are in their
\* year directory now
NowInYear ==
    {p \in NestedJpgs(fs0) : \E q \in iterdir(fs, YearOf(p)) : fs[q] = fs0[p]}

\* C19 as stated: moved_count is the number of moves that have succeeded,
\* and the count of the summary is the number of files that were in a day
\* directory before the invocation and are in a year directory after it.
C19_CountIsFilesInYear ==
    /\ pc # "idle" => moved_count = ok_moves
    /\ pc = "done" /\ report # NoReport =>
          report["Photos moved"] = Cardinality(NowInYear)

\* C19 amended: moved_count is the number of moves that have succeeded, a
\* move that raised is not counted, and the count of the summary is the
\* number of files that were in a day directory before the invocation, are
\* in their year directory after it and have left their place; the files
\* that a move which raised has copied are no part of it.
C19_CountIsSucceededMoves ==
    /\ pc # "idle" => moved_count = ok_moves
    /\ pc \in {"move", "prune", "done"} =>
          moved_count + failed_moves = Cardinality(attempted)
    /\ pc = "done" /\ report # NoReport =>
          /\ report["Photos moved"] = ok_moves
          /\ report["Photos moved"] =
                Cardinality({p \in NestedJpgs(fs0) : ~AtSource(p) /\ NewInYear(p) # {}})

\* an invocation has ended with one move counted and one that raised
C19_Witness ==
    /\ pc = "done" /\ report # NoReport
    /\ report["Photos moved"] = 1
    /\ failed_moves = 1

(* ------------------------------- C20 ----------------------------------- *)

\* C20: cleanup invokes stop only on a controller whose is_initialized is
\* True, and then on the handle that the last initialize started and that
\* has not been stopped; on any other controller it changes nothing; after
\* a stop that returned is_initialized is False and the handle is not
\* running, so a further cleanup does not invoke stop again.
C20_CleanupGuarded ==
    call.method = "cleanup" =>
        /\ picam2 = call.handle /\ call.after = call.before
        /\ call.stop # "not called" <=> call.ready
        /\ call.stop # "not called" =>
              call.handle # NoHandle /\ call.made[call.handle] = "started"
        /\ call.stop = "not called" =>
              /\ handles = call.made
              /\ is_initialized = call.ready /\ ~is_initialized
        /\ call.stop = "returned" =>
              /\ ~is_initialized
              /\ handles = [call.made EXCEPT ![call.handle] = "idle"]
        /\ call.stop = "raised" => handles = call.made /\ is_initialized

\* cleanup was called on a controller that had taken a photo and whose
\* handle was no longer running, and did not invoke stop
C20_Witness ==
    /\ call.method = "cleanup" /\ call.stop = "not called"
    /\ call.handle # NoHandle /\ call.made[call.handle] = "idle"
    /\ shots > 0
    /\ handles = call.made

====
